---- MODULE Spec2Model ----
(***************************************************************************)
(* A model of travel_agent.py: the POI fetcher (fetch_pois and its two     *)
(* providers), the category table of the open geocoder and the itinerary   *)
(* planner (itinerary_agent).                                              *)
(*                                                                         *)
(* Text is modelled as a sequence of one-character strings, so that        *)
(* strip(), lower(), "in" (substring) and join() are computed as Python    *)
(* computes them.  A missing / None / empty JSON string is the empty       *)
(* sequence: the code reads all three through `x or default`.              *)
(* A JSON number that may be null is a sequence of length 0 (null) or 1.   *)
(* Dates are day ordinals; precipitation is in mm, temperature in deg C.   *)
(***************************************************************************)
EXTENDS Integers, Sequences, FiniteSets, TLC

(***************************************************************************)
(* Bounds of the model.                                                    *)
(***************************************************************************)
MaxFeatures == 4
\* longest provider response (features / elements)
MaxLimit == 2
\* largest `limit` handed to fetch_pois when it is checked on its own
MaxEnd == 2
\* largest end_date ordinal; start_date is ordinal 1
MaxDailyLimit == 4
\* largest daily_limit

(***************************************************************************)
(* Python string operations.                                               *)
(***************************************************************************)
Max(a, b) == IF a >= b THEN a ELSE b

Min(a, b) == IF a <= b THEN a ELSE b

LowerChar(c) ==
  CASE c = "F" -> "f"
    [] c = "G" -> "g"
    [] c = "L" -> "l"
    [] c = "M" -> "m"
    [] c = "P" -> "p"
    [] c = "B" -> "b"
    [] c = "N" -> "n"
    [] c = "C" -> "c"
    [] c = "T" -> "t"
    [] c = "I" -> "i"
    [] OTHER -> c

lower(s) == [i \in 1..Len(s) |-> LowerChar(s[i])]

RECURSIVE lstrip(_)
lstrip(s) == IF s # <<>> /\ Head(s) = " " THEN lstrip(Tail(s)) ELSE s

RECURSIVE rstrip(_)
rstrip(s) ==
  IF s # <<>> /\ s[Len(s)] = " " THEN rstrip(SubSeq(s, 1, Len(s) - 1)) ELSE s

strip(s) == rstrip(lstrip(s))

\* Python's `needle in hay` on strings
Contains(needle, hay) ==
  \E i \in 0..(Len(hay) - Len(needle)) : SubSeq(hay, i + 1, i + Len(needle)) = needle

\* Python's sep.join(parts)
RECURSIVE join(_, _)
join(sep, parts) ==
  IF parts = <<>> THEN <<>>
  ELSE IF Len(parts) = 1 THEN parts[1]
  ELSE parts[1] \o sep \o join(sep, Tail(parts))

SeqsUpTo(S, n) == UNION {[1..k -> S] : k \in 0..n}

\* Python's xs[:n] for n >= 0
Take(xs, n) == SubSeq(xs, 1, Min(n, Len(xs)))

\* [x for x in xs if Keep(x)]
RECURSIVE NonEmptyOnly(_)
NonEmptyOnly(xs) ==
  IF xs = <<>> THEN <<>>
  ELSE IF Head(xs) # <<>> THEN <<Head(xs)>> \o NonEmptyOnly(Tail(xs))
  ELSE NonEmptyOnly(Tail(xs))

(***************************************************************************)
(* Words.                                                                  *)
(***************************************************************************)
s_unknown == <<"u","n","k","n","o","w","n">>
s_museum == <<"m","u","s","e","u","m">>
s_theatre == <<"t","h","e","a","t","r","e">>
s_gallery == <<"g","a","l","l","e","r","y">>
s_library == <<"l","i","b","r","a","r","y">>
s_cinema == <<"c","i","n","e","m","a">>
s_attraction == <<"a","t","t","r","a","c","t","i","o","n">>
s_memorial == <<"m","e","m","o","r","i","a","l">>
s_monument == <<"m","o","n","u","m","e","n","t">>
s_historic == <<"h","i","s","t","o","r","i","c">>
s_park == <<"p","a","r","k">>
s_marketplace == <<"m","a","r","k","e","t","p","l","a","c","e">>
s_fort == <<"f","o","r","t">>
s_Fort == <<"F","o","r","t">>
s_fort_sp == <<" ","f","o","r","t">>
s_Museum == <<"M","u","s","e","u","m">>
s_Lake == <<"L","a","k","e">>
s_Park == <<"P","a","r","k">>
s_blank == <<" ">>
s_comma == <<",">>

(***************************************************************************)
(* fetch_pois_opentripmap: the structured provider.                        *)
(* A feature's properties: name (empty when missing), kinds and whether    *)
(* the kinds key is present at all.                                        *)
(***************************************************************************)
Feature(n, hk, k) == [name |-> n, has_kinds |-> hk, kinds |-> k]

\* what the radius search may return
OtmFeatures ==
  { Feature(s_Fort, TRUE, s_historic),
    Feature(s_fort_sp, TRUE, s_theatre),
    Feature(s_Museum, TRUE, s_museum),
    Feature(<<>>, TRUE, s_gallery),
    Feature(<<>>, FALSE, <<>>),
    Feature(s_blank, TRUE, s_park) }

\* props.get("name") or props.get("kinds", "unknown")
OtmName(props) ==
  IF props.name # <<>> THEN props.name
  ELSE IF props.has_kinds THEN props.kinds ELSE s_unknown

\* the provider's answers: no key configured, a failed request, or a feature list
OtmAnswers ==
  {[key |-> FALSE, ok |-> FALSE, features |-> <<>>], [key |-> TRUE, ok |-> FALSE, features |-> <<>>]}
    \cup [key : {TRUE}, ok : {TRUE}, features : SeqsUpTo(OtmFeatures, MaxFeatures)]

\* key: is OPENTRIPMAP_API_KEY set; ok: did the request succeed
fetch_pois_opentripmap(key, ok, features) ==
  IF ~key THEN <<>>
  ELSE IF ~ok THEN <<>>
  ELSE [i \in 1..Len(features) |->
          [name |-> OtmName(features[i]), kinds |-> features[i].kinds]]

(***************************************************************************)
(* fetch_pois_overpass: the generic map-feature query.                     *)
(* An element's tags: name and the four kind tags (empty when missing).    *)
(***************************************************************************)
Element(n, t, h, l, a) ==
  [name |-> n, tourism |-> t, historic |-> h, leisure |-> l, amenity |-> a]

OverpassElements ==
  { Element(s_Fort, s_attraction, s_fort, <<>>, <<>>),
    Element(s_fort_sp, <<>>, s_memorial, <<>>, <<>>),
    Element(s_Museum, s_museum, <<>>, <<>>, <<>>),
    Element(s_Park, <<>>, <<>>, s_park, <<>>),
    Element(s_Lake, <<>>, <<>>, <<>>, <<>>),
    Element(<<>>, <<>>, s_monument, <<>>, <<>>) }

\* ",".join([str(x) for x in kinds_list if x]) or "unknown"
OverpassKinds(tags) ==
  LET kinds == join(s_comma, NonEmptyOnly(<<tags.tourism, tags.historic, tags.leisure, tags.amenity>>))
  IN IF kinds # <<>> THEN kinds ELSE s_unknown

\* the loop over the elements: results so far, keys seen, elements left
RECURSIVE OverpassLoop(_, _, _, _)
OverpassLoop(el, results, seen, limit) ==
  IF el = <<>> THEN results
  ELSE LET e == Head(el)
           key == lower(strip(e.name))
       IN IF e.name = <<>> THEN OverpassLoop(Tail(el), results, seen, limit)
          ELSE IF key \in seen THEN OverpassLoop(Tail(el), results, seen, limit)
          ELSE LET r2 == Append(results, [name |-> e.name, kinds |-> OverpassKinds(e)])
               IN IF Len(r2) >= limit THEN r2
                  ELSE OverpassLoop(Tail(el), r2, seen \cup {key}, limit)

fetch_pois_overpass(ok, el, limit) ==
  IF ~ok THEN <<>> ELSE OverpassLoop(el, <<>>, {}, limit)

(***************************************************************************)
(* fetch_pois                                                              *)
(***************************************************************************)
OverpassMinLimit == 12

priority ==
  <<s_attraction, s_museum, s_memorial, s_monument, s_historic, s_park, s_marketplace, s_gallery>>

\* score(p): minus the rank of the first priority word found in the kinds
RECURSIVE ScoreFrom(_, _)
ScoreFrom(kinds, i) ==
  IF i > Len(priority) THEN 0
  ELSE IF Contains(priority[i], kinds) THEN 0 - (Len(priority) - (i - 1))
  ELSE ScoreFrom(kinds, i + 1)

score(p) == ScoreFrom(lower(p.kinds), 1)

\* list.sort(key=score): a stable sort, ascending
RECURSIVE InsertByScore(_, _)
InsertByScore(sorted, p) ==
  IF sorted = <<>> THEN <<p>>
  ELSE IF score(Head(sorted)) <= score(p) THEN <<Head(sorted)>> \o InsertByScore(Tail(sorted), p)
  ELSE <<p>> \o sorted

RECURSIVE SortByScore(_)
SortByScore(ps) ==
  IF ps = <<>> THEN <<>>
  ELSE InsertByScore(SortByScore(SubSeq(ps, 1, Len(ps) - 1)), ps[Len(ps)])

\* mutant of DedupLoop: the key is the trimmed name, not lowercased
RECURSIVE DedupLoopCaseSensitive(_, _, _)
DedupLoopCaseSensitive(pois, filtered, seen) ==
  IF pois = <<>> THEN filtered
  ELSE LET p == Head(pois)
           name == strip(p.name)
           key == name
       IN IF name = <<>> THEN DedupLoopCaseSensitive(Tail(pois), filtered, seen)
          ELSE IF key \in seen THEN DedupLoopCaseSensitive(Tail(pois), filtered, seen)
          ELSE DedupLoopCaseSensitive(Tail(pois), Append(filtered, p), seen \cup {key})

\* lines 261-271: the primary path's filter: drop blank names and names seen before
RECURSIVE DedupLoop(_, _, _)
DedupLoop(pois, filtered, seen) ==
  IF pois = <<>> THEN filtered
  ELSE LET p == Head(pois)
           name == strip(p.name)
           key == lower(name)
       IN IF name = <<>> THEN DedupLoop(Tail(pois), filtered, seen)
          ELSE IF key \in seen THEN DedupLoop(Tail(pois), filtered, seen)
          ELSE DedupLoop(Tail(pois), Append(filtered, p), seen \cup {key})

\* pois: what fetch_pois_opentripmap returned; ovOk, el: the Overpass answer
FetchPoisPrimary(pois, limit) == Take(DedupLoop(pois, <<>>, {}), limit)

FetchPoisFallback(ovOk, el, limit) ==
  LET pois2 == fetch_pois_overpass(ovOk, el, Max(limit, OverpassMinLimit))
  IN IF pois2 = <<>> THEN <<>> ELSE Take(SortByScore(pois2), limit)

\* the Overpass answers that can matter: it is queried only when pois is empty
OverpassAnswers(pois) ==
  IF pois # <<>> THEN {[ok |-> FALSE, el |-> <<>>]}
  ELSE [ok : BOOLEAN, el : SeqsUpTo(OverpassElements, MaxFeatures)]

fetch_pois(pois, ovOk, el, limit) ==
  IF pois # <<>> THEN FetchPoisPrimary(pois, limit)
  ELSE FetchPoisFallback(ovOk, el, limit)

(***************************************************************************)
(* The state.                                                              *)
(*   itinerary_agent: its arguments, its locals and the rows it builds;    *)
(*   `calls` logs the calls it makes, `selected` keeps each day's          *)
(*   day_selected list, `result` is what it returns.                       *)
(***************************************************************************)
VARIABLES
  pc, city, start_date, end_date, daily_limit,
  g, calls, sd, ed, num_days, pool_pois, weather_ok, precip, tmax, tmin,
  pool, assigned, rows, idx, selected, result,
  f_pc, otm_answer, ov_answer, limit, pois, fetched, fcalls,
  c_pc, fclass, ftype, category,
  gc_pc, place_arg, have_key, query, attempts, nominatim_g, geo

ivars ==
  <<pc, city, start_date, end_date, daily_limit,
    g, calls, sd, ed, num_days, pool_pois, weather_ok, precip, tmax, tmin,
    pool, assigned, rows, idx, selected, result>>

\* fetch_pois on its own: the two providers' answers, its limit, what it returns
fvars == <<f_pc, otm_answer, ov_answer, limit, pois, fetched, fcalls>>

\* the category table on its own: a chosen candidate's class and type
cvars == <<c_pc, fclass, ftype, category>>

\* geocode_city on its own: its argument, whether the provider key is set, the
\* stripped place, the requests made so far, the open geocoder's first result
\* and what geocode_city returns (<<>> is None)
gvars == <<gc_pc, place_arg, have_key, query, attempts, nominatim_g, geo>>

vars == <<ivars, fvars, cvars, gvars>>

IdleGeocode ==
  /\ gc_pc = "idle"
  /\ place_arg = <<>>
  /\ have_key = FALSE
  /\ query = <<>>
  /\ attempts = <<>>
  /\ nominatim_g = <<>>
  /\ geo = <<>>

IdleFetch ==
  /\ f_pc = "idle"
  /\ otm_answer = [key |-> FALSE, ok |-> FALSE, features |-> <<>>]
  /\ ov_answer = [ok |-> FALSE, el |-> <<>>]
  /\ limit = 0
  /\ pois = <<>>
  /\ fetched = <<>>
  /\ fcalls = <<>>

IdleCategory ==
  /\ c_pc = "idle"
  /\ fclass = <<>>
  /\ ftype = <<>>
  /\ category = ""

(***************************************************************************)
(* itinerary_agent                                                         *)
(***************************************************************************)
PoolMinLimit == 20
PoolFactor == 2
RainyMm == 2
HeavyRainMm == 10
HotC == 30
CoolC == 15

FreeSlot == <<"F","r","e","e"," ","/"," ","e","x","p","l","o","r","e"," ","l","o","c","a","l","l","y">>
DinnerSlot == <<"D","i","n","n","e","r"," ","/"," ","r","e","l","a","x">>
NeutralNote == "No specific weather notes"

Cities == {"Goa"}

\* a date argument: <<>> when parse_date raises, else <<ordinal>>
DateArgs == {<<>>} \cup {<<d>> : d \in 0..MaxEnd}
StartArgs == {<<>>, <<1>>}

\* one day of the forecast: precipitation_sum, temperature_2m_max, temperature_2m_min
DayWeather(pr, mx, mn) == [pr |-> pr, mx |-> mx, mn |-> mn]

DailyValues ==
  { DayWeather(<<>>, <<>>, <<>>),
    DayWeather(<<>>, <<30>>, <<20>>),
    DayWeather(<<0>>, <<20>>, <<12>>),
    DayWeather(<<1>>, <<30>>, <<20>>),
    DayWeather(<<2>>, <<15>>, <<5>>),
    DayWeather(<<10>>, <<20>>, <<12>>) }

\* fetch_weather: {} when the request fails, else the lists of the daily forecast
WeatherAnswers(n) ==
  {[ok |-> FALSE, daily |-> <<>>]} \cup [ok : {TRUE}, daily : SeqsUpTo(DailyValues, n)]

indoor_kinds == {s_museum, s_theatre, s_gallery, s_library, s_cinema}

\* lines 384-388: the pool entry of a fetched POI
PoolEntry(p) ==
  LET kinds == lower(p.kinds)
  IN [name |-> p.name, is_indoor |-> \E k \in indoor_kinds : Contains(k, kinds), kinds |-> kinds]

\* float(x) of a forecast value succeeded
IsNumber(x) == x # <<>>

\* mutant of rainy: a day without a precipitation entry counts as rainy
rainyByDefault(pr, i) ==
  IF i < Len(pr) THEN (IF IsNumber(pr[i + 1]) THEN pr[i + 1][1] >= RainyMm ELSE FALSE)
  ELSE TRUE

\* lines 422-427
rainy(pr, i) ==
  IF i < Len(pr) THEN (IF IsNumber(pr[i + 1]) THEN pr[i + 1][1] >= RainyMm ELSE FALSE)
  ELSE FALSE

PrecipNote(pr, i) ==
  IF i < Len(pr)
  THEN LET v == IF IsNumber(pr[i + 1]) THEN pr[i + 1][1] ELSE 0
       IN IF v >= HeavyRainMm THEN <<"Heavy rain expected - favor indoor activities">>
          ELSE IF v >= RainyMm THEN <<"Chance of rain - have indoor alternatives">>
          ELSE IF v > 0 THEN <<"Light showers possible">>
          ELSE <<"Good weather for walking">>
  ELSE <<>>

TempNote(mxs, mns, i) ==
  IF i < Len(mxs) /\ i < Len(mns)
  THEN IF IsNumber(mxs[i + 1]) /\ IsNumber(mns[i + 1])
       THEN LET mx == mxs[i + 1][1]
            IN IF mx >= HotC THEN <<"Hot during day">>
               ELSE IF mx <= CoolC THEN <<"Cool day - bring a jacket">>
               ELSE <<>>
       ELSE <<>>
  ELSE <<>>

\* the parts of the note; the code joins them with "; "
weather_note_for_day(pr, mxs, mns, i) ==
  LET note_parts == PrecipNote(pr, i) \o TempNote(mxs, mns, i)
  IN IF note_parts # <<>> THEN note_parts ELSE <<NeutralNote>>

\* mutant of PickIndex: the cursor is advanced before it is read
PickIndexOffByOne(cursor, n) == (cursor + 1) % Max(1, n)

\* line 432: the pool position the cursor points at (0-based)
PickIndex(cursor, n) == cursor % Max(1, n)

\* mutant of AlreadyAssigned: the assigned set is never consulted
AlreadyAssignedNever(p, asg) == FALSE

\* lines 436-437: skip a POI that is already assigned
AlreadyAssigned(p, asg) == p.name \in asg

\* mutant of RainExcluded: rain excludes nothing
RainExcludedNever(p, isRainy) == FALSE

\* lines 438-439: on a rainy day skip a POI that is not indoor
RainExcluded(p, isRainy) == isRainy /\ ~p.is_indoor

\* lines 431-441: the round-robin pass; st = [sel, assigned, idx, attempts]
RECURSIVE RoundRobin(_, _, _, _)
RoundRobin(pl, quota, isRainy, st) ==
  IF ~(Len(st.sel) < quota /\ st.attempts < Max(1, Len(pl)) * 2) THEN st
  ELSE IF pl = <<>> THEN [st EXCEPT !.idx = @ + 1, !.attempts = @ + 1]
  ELSE LET p == pl[PickIndex(st.idx, Len(pl)) + 1]
           st1 == [st EXCEPT !.idx = @ + 1, !.attempts = @ + 1]
       IN IF AlreadyAssigned(p, st.assigned) THEN RoundRobin(pl, quota, isRainy, st1)
          ELSE IF RainExcluded(p, isRainy) THEN RoundRobin(pl, quota, isRainy, st1)
          ELSE RoundRobin(pl, quota, isRainy,
                 [st1 EXCEPT !.sel = Append(@, p.name), !.assigned = @ \cup {p.name}])

\* lines 443-449: the backfill scan over the pool from position k
RECURSIVE BackfillFrom(_, _, _, _)
BackfillFrom(pl, quota, k, st) ==
  IF k > Len(pl) THEN st
  ELSE IF pl[k].name \in st.assigned THEN BackfillFrom(pl, quota, k + 1, st)
  ELSE LET st1 == [st EXCEPT !.sel = Append(@, pl[k].name), !.assigned = @ \cup {pl[k].name}]
       IN IF Len(st1.sel) >= quota THEN st1 ELSE BackfillFrom(pl, quota, k + 1, st1)

\* mutant of Backfill: a short day is left short
BackfillNever(pl, quota, st) == st

\* lines 442-449: the backfill pass of a day that is short of its quota
Backfill(pl, quota, st) ==
  IF Len(st.sel) < quota THEN BackfillFrom(pl, quota, 1, st) ELSE st

\* lines 429-449: the selection of one day
SelectDay(pl, quota, isRainy, asg, cursor) ==
  Backfill(pl, quota,
    RoundRobin(pl, quota, isRainy, [sel |-> <<>>, assigned |-> asg, idx |-> cursor, attempts |-> 0]))

\* mutant of MakeRow: the evening slot falls back to the morning's placeholder
MakeRowOnePlaceholder(date, day_selected, notes) ==
  [date |-> date,
   morning |-> IF Len(day_selected) > 0 THEN day_selected[1] ELSE FreeSlot,
   afternoon |-> IF Len(day_selected) > 1 THEN day_selected[2] ELSE FreeSlot,
   evening |-> IF Len(day_selected) > 2 THEN day_selected[3] ELSE FreeSlot,
   notes |-> notes]

\* lines 451-455
MakeRow(date, day_selected, notes) ==
  [date |-> date,
   morning |-> IF Len(day_selected) > 0 THEN day_selected[1] ELSE FreeSlot,
   afternoon |-> IF Len(day_selected) > 1 THEN day_selected[2] ELSE FreeSlot,
   evening |-> IF Len(day_selected) > 2 THEN day_selected[3] ELSE DinnerSlot,
   notes |-> notes]

NoResult == [kind |-> "running", place |-> ""]
\* mutant of GeocodeError: the message does not name the place
GeocodeErrorUnnamed(place) == [kind |-> "ERROR: Could not geocode", place |-> ""]

\* line 365
GeocodeError(place) == [kind |-> "ERROR: Could not geocode", place |-> place]
DateFormatError == [kind |-> "ERROR: Dates must be YYYY-MM-DD.", place |-> ""]
DateRangeError == [kind |-> "ERROR: end_date must be same or after start_date.", place |-> ""]
Itinerary(place) == [kind |-> "itinerary", place |-> place]

\* mutant of RangeInvalid: the comparison is off by one day
RangeInvalidOffByOne(first, last) == last + 1 < first

\* line 371
RangeInvalid(first, last) == last < first

\* mutant of NumDays: the end date is not counted
NumDaysExclusive(first, last) == last - first

\* line 373
NumDays(first, last) == (last - first) + 1

\* line 375
PoolLimit(quota, days) == Max(PoolMinLimit, quota * days * PoolFactor)

Init ==
  /\ pc = "geocode"
  /\ city \in Cities
  /\ start_date \in StartArgs
  /\ end_date \in DateArgs
  /\ daily_limit \in 1..MaxDailyLimit
  /\ g = <<>>
  /\ calls = <<>>
  /\ sd = 0 /\ ed = 0 /\ num_days = 0
  /\ pool_pois = <<>>
  /\ weather_ok = FALSE
  /\ precip = <<>> /\ tmax = <<>> /\ tmin = <<>>
  /\ pool = <<>>
  /\ assigned = {}
  /\ rows = <<>>
  /\ idx = 0
  /\ selected = <<>>
  /\ result = NoResult
  /\ IdleFetch
  /\ IdleCategory
  /\ IdleGeocode

\* lines 363-365: geocode_city(city); NotFound ends the run
Geocode ==
  /\ pc = "geocode"
  /\ calls' = Append(calls, "geocode_city")
  /\ \E found \in BOOLEAN :
       IF found
       THEN /\ g' = <<[name |-> city]>>
            /\ pc' = "dates"
            /\ result' = result
       ELSE /\ g' = <<>>
            /\ pc' = "done"
            /\ result' = GeocodeError(city)
  /\ UNCHANGED <<city, start_date, end_date, daily_limit, sd, ed, num_days, pool_pois,
                 weather_ok, precip, tmax, tmin, pool, assigned, rows, idx, selected, fvars, cvars, gvars>>

\* lines 366-373: parse the dates, validate the range, count the days
ParseDates ==
  /\ pc = "dates"
  /\ IF start_date = <<>> \/ end_date = <<>>
     THEN /\ pc' = "done"
          /\ result' = DateFormatError
          /\ UNCHANGED <<sd, ed, num_days>>
     ELSE /\ sd' = start_date[1]
          /\ ed' = end_date[1]
          /\ IF RangeInvalid(start_date[1], end_date[1])
             THEN /\ pc' = "done"
                  /\ result' = DateRangeError
                  /\ num_days' = num_days
             ELSE /\ pc' = "pois"
                  /\ result' = result
                  /\ num_days' = NumDays(start_date[1], end_date[1])
  /\ UNCHANGED <<city, start_date, end_date, daily_limit, g, calls, pool_pois,
                 weather_ok, precip, tmax, tmin, pool, assigned, rows, idx, selected, fvars, cvars, gvars>>

\* lines 375-376: fetch_pois(lat, lon, radius=3500, limit=max(20, daily_limit*num_days*2))
FetchPois ==
  /\ pc = "pois"
  /\ calls' = Append(calls, "fetch_pois")
  /\ \E otm \in OtmAnswers :
       LET got == fetch_pois_opentripmap(otm.key, otm.ok, otm.features)
       IN \E ov \in OverpassAnswers(got) :
            pool_pois' = fetch_pois(got, ov.ok, ov.el, PoolLimit(daily_limit, num_days))
  /\ pc' = "weather"
  /\ UNCHANGED <<city, start_date, end_date, daily_limit, g, sd, ed, num_days,
                 weather_ok, precip, tmax, tmin, pool, assigned, rows, idx, selected, result, fvars, cvars, gvars>>

\* lines 378-392: fetch_weather, read its three lists, tag the pool, reset the locals
FetchWeather ==
  /\ pc = "weather"
  /\ calls' = Append(calls, "fetch_weather")
  /\ \E w \in WeatherAnswers(num_days) :
       /\ weather_ok' = w.ok
       /\ precip' = [i \in 1..Len(w.daily) |-> w.daily[i].pr]
       /\ tmax' = [i \in 1..Len(w.daily) |-> w.daily[i].mx]
       /\ tmin' = [i \in 1..Len(w.daily) |-> w.daily[i].mn]
  /\ pool' = [i \in 1..Len(pool_pois) |-> PoolEntry(pool_pois[i])]
  /\ assigned' = {}
  /\ rows' = <<>>
  /\ idx' = 0
  /\ pc' = "days"
  /\ UNCHANGED <<city, start_date, end_date, daily_limit, g, sd, ed, num_days,
                 pool_pois, selected, result, fvars, cvars, gvars>>

\* lines 420-455: one iteration of the loop over the days
DayStep ==
  /\ pc = "days"
  /\ Len(rows) < num_days
  /\ LET day_index == Len(rows)
         st == SelectDay(pool, daily_limit, rainy(precip, day_index), assigned, idx)
     IN /\ assigned' = st.assigned
        /\ idx' = st.idx
        /\ selected' = Append(selected, st.sel)
        /\ rows' = Append(rows, MakeRow(sd + day_index, st.sel,
                                        weather_note_for_day(precip, tmax, tmin, day_index)))
  /\ UNCHANGED <<pc, city, start_date, end_date, daily_limit, g, calls, sd, ed, num_days,
                 pool_pois, weather_ok, precip, tmax, tmin, pool, result, fvars, cvars, gvars>>

\* lines 457-478: render the rows and return
Render ==
  /\ pc = "days"
  /\ Len(rows) = num_days
  /\ pc' = "done"
  /\ result' = Itinerary(g[1].name)
  /\ UNCHANGED <<city, start_date, end_date, daily_limit, g, calls, sd, ed, num_days,
                 pool_pois, weather_ok, precip, tmax, tmin, pool, assigned, rows, idx, selected, fvars, cvars, gvars>>

Next == Geocode \/ ParseDates \/ FetchPois \/ FetchWeather \/ DayStep \/ Render

Spec == Init /\ [][Next]_vars

(***************************************************************************)
(* fetch_pois, step by step (lines 258-286).                               *)
(***************************************************************************)
IdleItinerary ==
  /\ pc = "idle"
  /\ city = "" /\ start_date = <<>> /\ end_date = <<>> /\ daily_limit = 0
  /\ g = <<>> /\ calls = <<>>
  /\ sd = 0 /\ ed = 0 /\ num_days = 0
  /\ pool_pois = <<>>
  /\ weather_ok = FALSE
  /\ precip = <<>> /\ tmax = <<>> /\ tmin = <<>>
  /\ pool = <<>> /\ assigned = {} /\ rows = <<>> /\ idx = 0 /\ selected = <<>>
  /\ result = NoResult

InitFetch ==
  /\ IdleItinerary
  /\ IdleCategory
  /\ IdleGeocode
  /\ f_pc = "primary"
  /\ otm_answer \in OtmAnswers
  /\ ov_answer = [ok |-> FALSE, el |-> <<>>]
  /\ limit \in 0..MaxLimit
  /\ pois = <<>>
  /\ fetched = <<>>
  /\ fcalls = <<>>

\* lines 259-272: ask the structured provider; a non-empty answer is filtered and returned
FetchPrimary ==
  /\ f_pc = "primary"
  /\ LET got == fetch_pois_opentripmap(otm_answer.key, otm_answer.ok, otm_answer.features)
     IN /\ pois' = got
        /\ fcalls' = Append(fcalls, "fetch_pois_opentripmap")
        /\ IF got # <<>>
           THEN /\ fetched' = FetchPoisPrimary(got, limit)
                /\ f_pc' = "done"
           ELSE /\ fetched' = fetched
                /\ f_pc' = "fallback"
  /\ UNCHANGED <<otm_answer, ov_answer, limit, ivars, cvars, gvars>>

\* lines 273-286: ask Overpass, rank its answer and cut it to the limit
FetchFallback ==
  /\ f_pc = "fallback"
  /\ \E ov \in OverpassAnswers(pois) :
       /\ ov_answer' = ov
       /\ fetched' = FetchPoisFallback(ov.ok, ov.el, limit)
  /\ fcalls' = Append(fcalls, "fetch_pois_overpass")
  /\ f_pc' = "done"
  /\ UNCHANGED <<otm_answer, limit, pois, ivars, cvars, gvars>>

NextFetch == FetchPrimary \/ FetchFallback

SpecFetch == InitFetch /\ [][NextFetch]_vars

(***************************************************************************)
(* The category of a geocoded candidate (geocode_nominatim_once, lines     *)
(* 108-121).                                                               *)
(***************************************************************************)
s_beach == <<"b","e","a","c","h">>
s_peak == <<"p","e","a","k">>
s_mountain == <<"m","o","u","n","t","a","i","n">>
s_hill == <<"h","i","l","l">>
s_ridge == <<"r","i","d","g","e">>
s_valley == <<"v","a","l","l","e","y">>
s_mountain_range == <<"m","o","u","n","t","a","i","n","_","r","a","n","g","e">>
s_city == <<"c","i","t","y">>
s_town == <<"t","o","w","n">>
s_village == <<"v","i","l","l","a","g","e">>
s_county == <<"c","o","u","n","t","y">>
s_water == <<"w","a","t","e","r">>
s_river == <<"r","i","v","e","r">>
s_natural == <<"n","a","t","u","r","a","l">>
s_place == <<"p","l","a","c","e">>
s_waterway == <<"w","a","t","e","r","w","a","y">>
s_boundary == <<"b","o","u","n","d","a","r","y">>
s_tourism == <<"t","o","u","r","i","s","m">>
s_Natural == <<"N","a","t","u","r","a","l">>
s_administrative == <<"a","d","m","i","n","i","s","t","r","a","t","i","v","e">>
s_Beach == <<"B","e","a","c","h">>
s_beach_resort == <<"b","e","a","c","h","_","r","e","s","o","r","t">>
s_townhall == <<"t","o","w","n","h","a","l","l">>
s_hamlet == <<"h","a","m","l","e","t">>
s_colon == <<":">>

Classes == {<<>>, s_natural, s_Natural, s_place, s_waterway, s_boundary, s_tourism, s_beach}

Types ==
  {<<>>, s_peak, s_beach, s_Beach, s_beach_resort, s_mountain, s_hill, s_ridge, s_valley,
   s_mountain_range, s_city, s_town, s_townhall, s_village, s_county, s_water, s_river,
   s_administrative, s_hamlet}

MountainWords == <<s_peak, s_mountain, s_hill, s_ridge, s_valley, s_mountain_range>>

\* mutant of DeriveCategory: the water row is tried before the mountain row
DeriveCategoryWaterEarly(class, type) ==
  LET class_type == lower(class \o s_colon \o type)
  IN IF Contains(s_beach, class_type) \/ Contains(s_beach, type) THEN "beach"
     ELSE IF Contains(s_water, class_type) \/ Contains(s_river, class_type) THEN "water"
     ELSE IF \E i \in 1..Len(MountainWords) : Contains(MountainWords[i], class_type)
       THEN "mountain/hill"
     ELSE IF Contains(s_city, class_type) \/ Contains(s_town, class_type)
             \/ Contains(s_village, class_type) \/ Contains(s_county, class_type)
       THEN "city"
     ELSE "other"

\* lines 112-121
DeriveCategory(class, type) ==
  LET class_type == lower(class \o s_colon \o type)
  IN IF Contains(s_beach, class_type) \/ Contains(s_beach, type) THEN "beach"
     ELSE IF \E i \in 1..Len(MountainWords) : Contains(MountainWords[i], class_type)
       THEN "mountain/hill"
     ELSE IF Contains(s_city, class_type) \/ Contains(s_town, class_type)
             \/ Contains(s_village, class_type) \/ Contains(s_county, class_type)
       THEN "city"
     ELSE IF Contains(s_water, class_type) \/ Contains(s_river, class_type) THEN "water"
     ELSE "other"

InitCategory ==
  /\ IdleItinerary
  /\ IdleFetch
  /\ IdleGeocode
  /\ c_pc = "chosen"
  /\ fclass \in Classes
  /\ ftype \in Types
  /\ category = ""

\* lines 108-121: read the chosen candidate's class and type, derive the category
Classify ==
  /\ c_pc = "chosen"
  /\ category' = DeriveCategory(fclass, ftype)
  /\ c_pc' = "done"
  /\ UNCHANGED <<fclass, ftype, ivars, fvars, gvars>>

NextCategory == Classify

SpecCategory == InitCategory /\ [][NextCategory]_vars

(***************************************************************************)
(* Properties of itinerary_agent (checked under Spec).                     *)
(***************************************************************************)
Placeholders == {FreeSlot, DinnerSlot}

Slot(row, k) == IF k = 1 THEN row.morning ELSE IF k = 2 THEN row.afternoon ELSE row.evening

PlaceholderOf(k) == IF k = 3 THEN DinnerSlot ELSE FreeSlot

PoolNames == {pool[k].name : k \in 1..Len(pool)}

IndoorNames == {pool[k].name : k \in {j \in 1..Len(pool) : pool[j].is_indoor}}

\* the arguments name a resolvable place and a valid date range
ValidRun == g # <<>> /\ start_date # <<>> /\ end_date # <<>> /\ end_date[1] >= start_date[1]

\* the names selected on the days before day i (1-based)
SelectedBefore(i) == UNION {{selected[j][k] : k \in 1..Len(selected[j])} : j \in 1..(i - 1)}

\* C1: a POI name placed in a slot of one day appears in no other slot of that
\* day or of any other day of the itinerary (placeholders excluded).
C1_SlotsUnique ==
  \A i \in 1..Len(rows), j \in 1..Len(rows), a \in 1..3, b \in 1..3 :
    (<<i, a>> # <<j, b>> /\ Slot(rows[i], a) \notin Placeholders)
      => Slot(rows[i], a) # Slot(rows[j], b)

\* the cursor has wrapped round the pool and a later day still got a POI
C1_Witness ==
  /\ pc = "done" /\ Len(rows) = 2
  /\ idx > Len(pool) /\ Len(pool) >= 2
  /\ rows[1].afternoon \notin Placeholders
  /\ rows[2].morning \notin Placeholders

\* C2: a run with a resolvable place and end_date >= start_date returns an
\* itinerary of exactly (end_date - start_date) + 1 rows, dated start_date,
\* start_date + 1, ..., end_date in this order, whatever the pool, the weather
\* and daily_limit are.
C2_DayRows ==
  /\ (pc \in {"days", "done"} /\ ValidRun) =>
       /\ Len(rows) <= (end_date[1] - start_date[1]) + 1
       /\ \A i \in 1..Len(rows) : rows[i].date = start_date[1] + (i - 1)
  /\ (pc = "done" /\ ValidRun) =>
       /\ result.kind = "itinerary"
       /\ Len(rows) = (end_date[1] - start_date[1]) + 1
       /\ rows[Len(rows)].date = end_date[1]

C2_Witness ==
  /\ pc = "done" /\ result.kind = "itinerary"
  /\ start_date = <<1>> /\ end_date = <<2>>
  /\ Len(rows) = 2 /\ rows[1].date = 1 /\ rows[2].date = 2

\* day i (1-based) is rainy and, when it starts, at least daily_limit indoor
\* POIs of the pool are unassigned
RainyWithIndoorSupply(i) ==
  /\ rainy(precip, i - 1)
  /\ Cardinality(IndoorNames \ SelectedBefore(i)) >= daily_limit

\* C3 as stated: on such a day the morning, afternoon and evening slots all
\* hold indoor POIs.
C3_AllThreeSlotsIndoor ==
  \A i \in 1..Len(rows) :
    RainyWithIndoorSupply(i) => \A k \in 1..3 : Slot(rows[i], k) \in IndoorNames

\* C3 (amended): on such a day exactly daily_limit POIs are selected, all of
\* them indoor; the first min(daily_limit, 3) slots hold them and, when
\* daily_limit < 3, the remaining slots hold their placeholders.
C3_SelectedSlotsIndoor ==
  \A i \in 1..Len(rows) :
    RainyWithIndoorSupply(i) =>
      /\ Len(selected[i]) = daily_limit
      /\ \A k \in 1..Len(selected[i]) : selected[i][k] \in IndoorNames
      /\ \A k \in 1..3 :
           IF k <= daily_limit THEN Slot(rows[i], k) \in IndoorNames
           ELSE Slot(rows[i], k) = PlaceholderOf(k)

\* a rainy second day with an outdoor POI still unassigned and passed over
C3_Witness ==
  /\ Len(rows) = 2 /\ daily_limit = 1
  /\ RainyWithIndoorSupply(2)
  /\ \E k \in 1..Len(pool) : ~pool[k].is_indoor /\ pool[k].name \notin assigned
  /\ rows[2].morning \in IndoorNames

\* no day of the range is rainy
NoRain == \A i \in 0..(num_days - 1) : ~rainy(precip, i)

\* C4: with no rainy day and a pool of at least daily_limit * num_days POIs,
\* day i (0-based) is given exactly the pool entries at positions
\* i * daily_limit .. (i + 1) * daily_limit - 1, in pool order.
C4_RoundRobinOrder ==
  (pc \in {"days", "done"} /\ NoRain /\ Len(pool) >= daily_limit * num_days) =>
    \A i \in 1..Len(rows) :
      /\ Len(selected[i]) = daily_limit
      /\ \A k \in 1..daily_limit : selected[i][k] = pool[(i - 1) * daily_limit + k].name
      /\ \A k \in 1..Min(daily_limit, 3) : Slot(rows[i], k) = pool[(i - 1) * daily_limit + k].name

\* a pool of exactly daily_limit * num_days POIs, exhausted over two days
C4_Witness ==
  /\ pc = "done" /\ num_days = 2 /\ NoRain
  /\ Len(pool) = daily_limit * num_days
  /\ assigned = PoolNames
  /\ \E i \in 1..Len(precip) : precip[i] = <<1>>

\* C5: with fewer POIs than daily_limit * num_days the run still returns all
\* num_days rows; a slot that receives no POI holds its placeholder, and with
\* an empty pool every slot of every day is a placeholder.
C5_ShortPoolPlaceholders ==
  (pc = "done" /\ ValidRun /\ Len(pool) < daily_limit * num_days) =>
    /\ result.kind = "itinerary"
    /\ Len(rows) = num_days
    /\ \A i \in 1..Len(rows), k \in 1..3 :
         /\ Slot(rows[i], k) \in PoolNames \cup {PlaceholderOf(k)}
         /\ (k > Len(selected[i])) => Slot(rows[i], k) = PlaceholderOf(k)
         /\ (pool = <<>>) => Slot(rows[i], k) = PlaceholderOf(k)

\* two POIs for two days of three: the first day takes both
C5_Witness ==
  /\ pc = "done" /\ num_days = 2 /\ daily_limit = 3 /\ Len(pool) = 2
  /\ rows[1].evening = DinnerSlot
  /\ rows[2].morning = FreeSlot /\ rows[2].afternoon = FreeSlot /\ rows[2].evening = DinnerSlot

\* the names of the pool, in pool order
PoolNameSeq == [k \in 1..Len(pool) |-> pool[k].name]

RECURSIVE Flatten(_)
Flatten(ss) == IF ss = <<>> THEN <<>> ELSE Head(ss) \o Flatten(Tail(ss))

\* C6: when fetch_weather fails or returns empty data the run still completes,
\* every day's notes are the neutral message, no day is rainy and no POI is
\* passed over: the days take the pool in pool order.
C6_NoWeather ==
  ((pc \in {"days", "done"}) /\ ValidRun /\ (~weather_ok \/ (precip = <<>> /\ tmax = <<>> /\ tmin = <<>>))) =>
    /\ \A i \in 1..Len(rows) :
         /\ rows[i].notes = <<NeutralNote>>
         /\ ~rainy(precip, i - 1)
    /\ Flatten(selected) = Take(PoolNameSeq, Len(Flatten(selected)))
    /\ (pc = "done") => (result.kind = "itinerary" /\ Len(rows) = num_days)

\* a failed forecast, an outdoor POI at the head of the pool and an indoor one behind it
C6_Witness ==
  /\ pc = "done" /\ ~weather_ok /\ Len(rows) = 2
  /\ Len(pool) >= 2 /\ ~pool[1].is_indoor /\ pool[2].is_indoor
  /\ rows[1].morning = pool[1].name
  /\ rows[1].notes = <<NeutralNote>>

\* the dates parse and end_date is before start_date
EndBeforeStart == start_date # <<>> /\ end_date # <<>> /\ end_date[1] < start_date[1]

\* C7 as stated: the range check comes first, so every run with end_date
\* before start_date ends with the invalid-range error and no rows, whatever
\* the place is.
C7_RangeErrorWhateverPlace ==
  (pc = "done" /\ EndBeforeStart) => (result = DateRangeError /\ rows = <<>>)

\* C7 (amended): geocoding comes first.  A run with end_date before
\* start_date builds no rows and calls neither fetcher; it ends with the
\* invalid-range error when the place resolves and with the geocode error
\* when it does not.
C7_RangeErrorAfterGeocode ==
  EndBeforeStart =>
    /\ rows = <<>>
    /\ pc \in {"geocode", "dates", "done"}
    /\ (pc = "done") =>
         /\ calls = <<"geocode_city">>
         /\ result = IF g # <<>> THEN DateRangeError ELSE GeocodeError(city)

C7_Witness ==
  /\ pc = "done" /\ g # <<>> /\ EndBeforeStart
  /\ result = DateRangeError

IsPrefix(a, b) == Len(a) <= Len(b) /\ a = SubSeq(b, 1, Len(a))

\* C8: only a geocode failure is fatal.  NotFound ends the run with the error
\* naming the place and neither fetcher is called; a resolved place with
\* valid dates has geocode_city, fetch_pois and fetch_weather called once
\* each in this order, and returns an itinerary even when the POI fetch or the
\* weather fetch yields nothing.
C8_OnlyGeocodeFatal ==
  /\ IsPrefix(calls, <<"geocode_city", "fetch_pois", "fetch_weather">>)
  /\ (pc # "geocode" /\ g = <<>>) =>
       /\ pc = "done"
       /\ result.kind = "ERROR: Could not geocode" /\ result.place = city
       /\ calls = <<"geocode_city">>
  /\ (result.kind = "ERROR: Could not geocode") => g = <<>>
  /\ (pc = "done" /\ ValidRun) =>
       /\ calls = <<"geocode_city", "fetch_pois", "fetch_weather">>
       /\ result.kind = "itinerary"

\* both fetchers came back empty-handed and the run still returned an itinerary
C8_Witness ==
  /\ pc = "done" /\ ValidRun
  /\ pool_pois = <<>> /\ ~weather_ok
  /\ result.kind = "itinerary" /\ Len(rows) = 2

(***************************************************************************)
(* The category table (checked under SpecCategory).                        *)
(***************************************************************************)
\* the word occurs in the lowercased class or in the lowercased type
HasWord(word, class, type) == Contains(word, lower(class)) \/ Contains(word, lower(type))

\* the ordered table: the first row with a matching word wins
TableCategory(class, type) ==
  IF HasWord(s_beach, class, type) THEN "beach"
  ELSE IF \E word \in {s_peak, s_mountain, s_hill, s_ridge, s_valley, s_mountain_range} :
            HasWord(word, class, type)
    THEN "mountain/hill"
  ELSE IF \E word \in {s_city, s_town, s_village, s_county} : HasWord(word, class, type)
    THEN "city"
  ELSE IF \E word \in {s_water, s_river} : HasWord(word, class, type) THEN "water"
  ELSE "other"

\* C9: the derived category is the first match of the ordered table beach,
\* mountain/hill, city, water, other on the class and type strings; class
\* natural with type peak gives mountain/hill and with type beach gives beach.
C9_CategoryTable ==
  (c_pc = "done") =>
    /\ category = TableCategory(fclass, ftype)
    /\ (fclass = s_natural /\ ftype = s_peak) => category = "mountain/hill"
    /\ (fclass = s_natural /\ ftype = s_beach) => category = "beach"

\* a candidate matching the mountain row and the water row
C9_Witness ==
  /\ c_pc = "done" /\ fclass = s_waterway /\ ftype = s_peak
  /\ category = "mountain/hill"

(***************************************************************************)
(* fetch_pois (checked under SpecFetch).                                   *)
(***************************************************************************)
\* a POI's identity: its lowercase-trimmed name
Key(p) == lower(strip(p.name))

NoDupKeys(ps) == \A i \in 1..Len(ps), j \in 1..Len(ps) : i # j => Key(ps[i]) # Key(ps[j])

\* the positions of the provider's answer that survive: a name that is not
\* blank and whose key no earlier position carries
FirstSeen == {i \in 1..Len(pois) : Key(pois[i]) # <<>> /\ \A j \in 1..(i - 1) : Key(pois[j]) # Key(pois[i])}

KthSmallest(S, k) == CHOOSE x \in S : Cardinality({y \in S : y < x}) = k - 1

\* C10: what fetch_pois returns holds no two POIs with the same
\* lowercase-trimmed name and at most `limit` entries, on either path; on the
\* primary path it is the provider's answer in first-seen order, cut to limit.
C10_FetchPoisDedup ==
  (f_pc = "done") =>
    /\ NoDupKeys(fetched)
    /\ Len(fetched) <= limit
    /\ (pois # <<>>) =>
         /\ Len(fetched) = Min(limit, Cardinality(FirstSeen))
         /\ \A k \in 1..Len(fetched) : fetched[k] = pois[KthSmallest(FirstSeen, k)]

\* the provider repeated a name in another case and more POIs survive than limit
C10_Witness ==
  /\ f_pc = "done" /\ pois # <<>> /\ ~NoDupKeys(pois)
  /\ limit >= 1 /\ Cardinality(FirstSeen) > limit
  /\ Len(fetched) = limit

\* the generic map-feature fallback was queried
FallbackQueried == \E i \in 1..Len(fcalls) : fcalls[i] = "fetch_pois_overpass"

\* C11, for a positive limit (so that no empty result comes from the cut to
\* limit alone): the fallback is queried if and only if the primary path
\* yields zero POIs; it is never queried when the primary path yields a POI,
\* and an empty result of fetch_pois means that the fallback was queried and
\* yielded nothing as well.
C11_FallbackIffPrimaryEmpty ==
  (f_pc = "done" /\ limit >= 1) =>
    /\ FallbackQueried <=> (FetchPoisPrimary(pois, limit) = <<>>)
    /\ (fetched = <<>>) =>
         /\ FallbackQueried
         /\ fetch_pois_overpass(ov_answer.ok, ov_answer.el, Max(limit, OverpassMinLimit)) = <<>>

(***************************************************************************)
(* geocode_city and the geocoders it tries (lines 52-180).                 *)
(***************************************************************************)
MaxItems == 2
\* longest candidate list of the open geocoder in the model

s_Goa == <<"G","o","a">>
s_Goa_sp == <<" ","G","o","a"," ">>
s_Goa_IN == <<"G","o","a",","," ","I","N">>
s_four_words == <<"a"," ","b"," ","c"," ","d">>
s_two_blanks == <<" "," ">>
s_hint == <<","," ","I","n","d","i","a">>
s_india == <<"i","n","d","i","a">>
s_Goa_India == <<"G","o","a",","," ","I","n","d","i","a">>
s_Goa_Lane == <<"G","o","a"," ","L","a","n","e">>
s_Panaji == <<"P","a","n","a","j","i">>

UserAgent1 == "LangGraph-Travel-Agent/1.0"
UserAgent2 == "Mozilla/5.0 (compatible; LangGraphAgent/1.0)"

\* the place arguments of the model
Places == {<<>>, s_blank, s_two_blanks, s_Goa, s_Goa_sp, s_Goa_IN, s_four_words}

\* place.split(",")[0]
RECURSIVE BeforeComma(_)
BeforeComma(s) ==
  IF s = <<>> THEN <<>>
  ELSE IF Head(s) = "," THEN <<>>
  ELSE <<Head(s)>> \o BeforeComma(Tail(s))

\* len(place.split()): the number of runs of non-blank characters
WordCount(s) ==
  Cardinality({i \in 1..Len(s) : s[i] # " " /\ (i = 1 \/ s[i - 1] = " ")})

\* place.split(",")[0].strip().lower()
Token(s) == lower(strip(BeforeComma(s)))

\* a candidate of the open geocoder's answer
Candidate(n, c, t) == [display_name |-> n, class |-> c, type |-> t]

Candidates ==
  { Candidate(s_Goa_India, s_boundary, s_administrative),
    Candidate(s_Goa_Lane, s_place, s_hamlet),
    Candidate(s_Panaji, s_place, s_city) }

\* the open geocoder's answers: a failed request, or a list of candidates
NominatimAnswers ==
  {[ok |-> FALSE, items |-> <<>>]} \cup [ok : {TRUE}, items : SeqsUpTo(Candidates, MaxItems)]

\* the structured provider's geoname answers: a failed request, an answer
\* without coordinates, or coordinates with a name and a type that may be missing
GeonameAnswers ==
  {[ok |-> FALSE, coords |-> FALSE, name |-> <<>>, type |-> ""],
   [ok |-> TRUE, coords |-> FALSE, name |-> <<>>, type |-> ""]}
    \cup [ok : {TRUE}, coords : {TRUE}, name : {<<>>, s_Goa_India}, type : {"", "city"}]

\* a request, as logged in attempts
Request(via, q, ua) == [via |-> via, q |-> q, ua |-> ua]

\* lines 52-72: geocode_opentripmap on an answer; <<>> is None
geocode_opentripmap(place, answer) ==
  IF ~answer.ok THEN <<>>
  ELSE IF ~answer.coords THEN <<>>
  ELSE <<[name |-> IF answer.name # <<>> THEN answer.name ELSE place,
          category |-> IF answer.type # "" THEN answer.type ELSE "place"]>>

\* lines 94-103: the first candidate whose display name holds the token, else the first
RECURSIVE Choose(_, _, _)
Choose(items, qtoken, k) ==
  IF k > Len(items) THEN items[1]
  ELSE IF qtoken # <<>> /\ Contains(qtoken, lower(items[k].display_name)) THEN items[k]
  ELSE Choose(items, qtoken, k + 1)

\* lines 75-133: geocode_nominatim_once on an answer; <<>> is None
geocode_nominatim_once(place, answer) ==
  IF ~answer.ok THEN <<>>
  ELSE IF answer.items = <<>> THEN <<>>
  ELSE LET chosen == Choose(answer.items, Token(place), 1)
       IN <<[name |-> chosen.display_name,
             category |-> DeriveCategory(chosen.class, chosen.type)]>>

\* mutant of HintApplies: the country hint is never tried
HintAppliesNever(place) == FALSE

\* line 144: a short name without a comma gets the country-hint retry
HintApplies(place) == ~Contains(s_comma, place) /\ WordCount(place) <= 3

\* the answers that can matter to a request: it is made only when `asked`
AnswersIf(asked) == IF asked THEN NominatimAnswers ELSE {[ok |-> FALSE, items |-> <<>>]}

\* lines 136-148: geocode_nominatim on the answers a1, a2 (the two client
\* headers) and a3 (the country hint): its result and the requests it made
geocode_nominatim(place, a1, a2, a3) ==
  LET r1 == geocode_nominatim_once(place, a1)
      r2 == geocode_nominatim_once(place, a2)
      r3 == geocode_nominatim_once(place \o s_hint, a3)
      q1 == Request("nominatim", place, UserAgent1)
      q2 == Request("nominatim", place, UserAgent2)
      q3 == Request("nominatim", place \o s_hint, UserAgent1)
  IN IF r1 # <<>> THEN [res |-> r1, log |-> <<q1>>]
     ELSE IF r2 # <<>> THEN [res |-> r2, log |-> <<q1, q2>>]
     ELSE IF HintApplies(place) THEN [res |-> r3, log |-> <<q1, q2, q3>>]
     ELSE [res |-> <<>>, log |-> <<q1, q2>>]

\* line 176: the result does not look like the place that was asked for
NeedsDisambiguation(place, res) ==
  LET token == Token(place)
      display_lower == lower(res.name)
  IN token # <<>> /\ ~Contains(token, display_lower) /\ ~Contains(s_india, display_lower)

InitGeocode ==
  /\ IdleItinerary
  /\ IdleFetch
  /\ IdleCategory
  /\ gc_pc = "strip"
  /\ place_arg \in Places
  /\ have_key \in BOOLEAN
  /\ query = <<>>
  /\ attempts = <<>>
  /\ nominatim_g = <<>>
  /\ geo = <<>>

\* lines 157-159: strip the place; an empty place is None at once
GeoStrip ==
  /\ gc_pc = "strip"
  /\ query' = strip(place_arg)
  /\ gc_pc' = IF strip(place_arg) = <<>> THEN "done" ELSE "opentripmap"
  /\ UNCHANGED <<place_arg, have_key, attempts, nominatim_g, geo, ivars, fvars, cvars>>

\* lines 161-168: the structured provider, asked only when its key is set
GeoOpenTripMap ==
  /\ gc_pc = "opentripmap"
  /\ IF ~have_key
     THEN /\ gc_pc' = "nominatim"
          /\ UNCHANGED <<attempts, geo>>
     ELSE /\ attempts' = Append(attempts, Request("opentripmap", query, ""))
          /\ \E answer \in GeonameAnswers :
               LET res == geocode_opentripmap(query, answer)
               IN /\ geo' = res
                  /\ gc_pc' = IF res # <<>> THEN "done" ELSE "nominatim"
  /\ UNCHANGED <<place_arg, have_key, query, nominatim_g, ivars, fvars, cvars>>

\* lines 170-176: the open geocoder; None ends the run, a result that does not
\* look like the place goes on to the country-hint search
GeoNominatim ==
  /\ gc_pc = "nominatim"
  /\ \E a1 \in NominatimAnswers :
       \E a2 \in AnswersIf(geocode_nominatim_once(query, a1) = <<>>) :
         \E a3 \in AnswersIf(/\ geocode_nominatim_once(query, a1) = <<>>
                             /\ geocode_nominatim_once(query, a2) = <<>>
                             /\ HintApplies(query)) :
           LET r == geocode_nominatim(query, a1, a2, a3)
           IN /\ attempts' = attempts \o r.log
              /\ nominatim_g' = r.res
              /\ geo' = r.res
              /\ gc_pc' = IF r.res = <<>> THEN "done"
                          ELSE IF NeedsDisambiguation(query, r.res[1]) THEN "disambiguate"
                          ELSE "done"
  /\ UNCHANGED <<place_arg, have_key, query, ivars, fvars, cvars>>

\* lines 177-180: search again with the country hint and prefer that result
GeoDisambiguate ==
  /\ gc_pc = "disambiguate"
  /\ \E a1 \in NominatimAnswers :
       \E a2 \in AnswersIf(geocode_nominatim_once(query \o s_hint, a1) = <<>>) :
         LET r == geocode_nominatim(query \o s_hint, a1, a2, [ok |-> FALSE, items |-> <<>>])
         IN /\ attempts' = attempts \o r.log
            /\ geo' = IF r.res # <<>> THEN r.res ELSE nominatim_g
  /\ gc_pc' = "done"
  /\ UNCHANGED <<place_arg, have_key, query, nominatim_g, ivars, fvars, cvars>>

NextGeocode == GeoStrip \/ GeoOpenTripMap \/ GeoNominatim \/ GeoDisambiguate

SpecGeocode == InitGeocode /\ [][NextGeocode]_vars

\* geocode_city has returned None (NotFound)
GeocodeNotFound == gc_pc = "done" /\ geo = <<>>

Attempted(r) == \E i \in 1..Len(attempts) : attempts[i] = r

\* C12 as stated: NotFound is returned only after the structured provider (when
\* a key is set), the open geocoder with both client headers and the
\* country-hint retry have all been attempted, for every place, empty or
\* whitespace-only places included.
C12_NotFoundAfterEveryPath ==
  GeocodeNotFound =>
    /\ have_key => Attempted(Request("opentripmap", strip(place_arg), ""))
    /\ Attempted(Request("nominatim", strip(place_arg), UserAgent1))
    /\ Attempted(Request("nominatim", strip(place_arg), UserAgent2))
    /\ Attempted(Request("nominatim", strip(place_arg) \o s_hint, UserAgent1))

\* C12, amended: for an empty or whitespace-only place NotFound is returned at
\* once and no provider is asked; for any other place NotFound is returned only
\* after the structured provider (when a key is set) and the open geocoder with
\* both client headers have been asked for the stripped place, and the
\* country-hint retry is made exactly when the stripped place has no comma and
\* at most three words; nothing else is asked.
C12_NotFoundAfterApplicablePaths ==
  GeocodeNotFound =>
    LET stripped == strip(place_arg)
        short == ~Contains(s_comma, stripped) /\ WordCount(stripped) <= 3
    IN IF stripped = <<>> THEN attempts = <<>>
       ELSE attempts =
              (IF have_key THEN <<Request("opentripmap", stripped, "")>> ELSE <<>>)
                \o <<Request("nominatim", stripped, UserAgent1),
                     Request("nominatim", stripped, UserAgent2)>>
                \o (IF short THEN <<Request("nominatim", stripped \o s_hint, UserAgent1)>>
                    ELSE <<>>)

\* NotFound for a short place after the key provider, both headers and the hint retry
C12_Witness ==
  /\ GeocodeNotFound
  /\ place_arg = s_Goa_sp
  /\ have_key
  /\ Len(attempts) = 4
  /\ attempts[4] = Request("nominatim", s_Goa \o s_hint, UserAgent1)

\* the precipitation-tier messages and the temperature messages of a day's notes
PrecipMessages ==
  {"Heavy rain expected - favor indoor activities", "Chance of rain - have indoor alternatives",
   "Light showers possible", "Good weather for walking"}

TempMessages == {"Hot during day", "Cool day - bring a jacket"}

HasMessage(row, msgs) == \E k \in 1..Len(row.notes) : row.notes[k] \in msgs

\* the forecast holds an actual precipitation value for day i (1-based)
HasPrecipValue(i) == i <= Len(precip) /\ precip[i] # <<>>

\* C13: the notes of a day hold a precipitation-tier message only when the
\* forecast holds an actual precipitation value for that day; a day whose
\* entry is missing or carries no value gets no precipitation message, is not
\* rainy, and has the neutral notes when no temperature message applies.
C13_PrecipMessageOnlyWithValue ==
  ((pc \in {"days", "done"}) /\ ValidRun) =>
    \A i \in 1..Len(rows) :
      /\ HasMessage(rows[i], PrecipMessages) => HasPrecipValue(i)
      /\ ~HasPrecipValue(i) =>
           /\ ~rainy(precip, i - 1)
           /\ ~HasMessage(rows[i], TempMessages) => rows[i].notes = <<NeutralNote>>

\* C14: a POI passed over on a rainy day is not consumed: the assigned set holds
\* the selected names only, so the POI stays eligible. Owing to the backfill
\* pass a day ends with fewer than daily_limit selected POIs only if every POI
\* of the pool is assigned by the end of that day; hence no slot within the
\* daily quota holds a placeholder while an unassigned POI remains.
C14_ShortDayOnlyWhenPoolExhausted ==
  ((pc \in {"days", "done"}) /\ ValidRun) =>
    /\ assigned = SelectedBefore(Len(selected) + 1)
    /\ \A i \in 1..Len(rows) :
         /\ Len(selected[i]) < daily_limit => PoolNames \subseteq SelectedBefore(i + 1)
         /\ \A k \in 1..Min(daily_limit, 3) :
              Slot(rows[i], k) \in Placeholders => PoolNames \subseteq SelectedBefore(i + 1)

\* a rainy first day passes over the outdoor head of the pool, takes the indoor
\* POI and backfills with the head; the second day takes the last POI and is short
C14_Witness ==
  /\ pc = "done" /\ daily_limit = 2 /\ Len(rows) = 2 /\ Len(pool) = 3
  /\ ~pool[1].is_indoor /\ pool[2].is_indoor /\ ~pool[3].is_indoor
  /\ Len(precip) >= 1 /\ precip[1] # <<>> /\ precip[1][1] >= RainyMm
  /\ selected[1] = <<pool[2].name, pool[1].name>>
  /\ selected[2] = <<pool[3].name>>
  /\ rows[2].afternoon = FreeSlot

\* the POI names shown in a morning, afternoon or evening slot of the rows so far
SlottedNames ==
  UNION {{Slot(rows[i], k) : k \in 1..3} \ Placeholders : i \in 1..Len(rows)}

\* C15: after every day step, for every positive daily_limit (daily_limit > 3
\* included), the assigned set is exactly the set of POI names placed into a
\* morning, afternoon or evening slot of the rows built so far.
C15_AssignedAreSlotted ==
  ((pc \in {"days", "done"}) /\ ValidRun) => assigned = SlottedNames

====
